---- MODULE Spec2Model ----
(***************************************************************************)
(* Verification model of the rosa command line tool:                       *)
(*   - node-pool replica configuration on create and on edit               *)
(*     (cmd/create/machinepool/nodepool.go, cmd/edit/machinepool/          *)
(*     nodepool.go);                                                       *)
(*   - the operator-role upgrade run (cmd/upgrade/operatorroles/cmd.go);   *)
(*   - the parsing of the command line (pkg/arguments/arguments.go);       *)
(*   - the SendContext method of two generated clients (ocm-sdk-go         *)
(*     clustersmgmt/v1: LogsListRequest, MachineTypeGetRequest).           *)
(* Each command is a separate program run, so each has its own             *)
(* specification (SpecNodePool, SpecUpgrade, SpecArgs, SpecSend) over the  *)
(* shared variables.                                                       *)
(***************************************************************************)
EXTENDS Integers, Sequences, FiniteSets, TLC

(***************************************************************************)
(* Bounds                                                                  *)
(***************************************************************************)
\* largest replica count given by a flag, a prompt answer or the existing pool
MaxReplicas == 2

\* value of an integer flag that was not given on the command line
FlagDefault == 0

\* integers a flag or a prompt answer can carry (negative ones included)
IntVals == (0 - 1)..MaxReplicas

\* number of operators in the credential requests
NumOperators == 2

\* number of OpenShift versions
MaxVersion == 2

\* largest number of command line arguments
MaxArgs == 3

\* largest number of parse calls made on one command
MaxCalls == 2

\* largest value of the page and size parameters of a list request
MaxPage == 2

VARIABLES
    pc,                 \* position of the running command
    cmd,                \* "create" | "edit" | "upgrade": the command being run
    exitCode,           \* -1 while running / after a plain return, else os.Exit code
    reported,           \* number of Reporter.Errorf calls made so far
    interactiveEnabled, \* interactive.Enabled()
    changed,            \* set of flag names with cmd.Flags().Changed(name)
    args,               \* the args struct of the machinepool commands
    nodePool,           \* the node pool returned by GetNodePool (edit)
    prompts,            \* prompts asked so far, with default and answer
    requests,           \* bodies passed to CreateNodePool / UpdateNodePool
    mode,               \* the role creation mode: "auto" | "manual" | ""
    cluster,            \* the cluster: its version and its operator IAM roles
    credRequests,       \* operator -> minimal version that requires its role
    awsRoles,           \* operator roles this run has created in the AWS account
    isAccountRoleUpgradeNeed,
    isOperatorPolicyUpgradeNeeded,
    missingRolesInCS,   \* result of FindMissingOperatorRolesForUpgrade
    todo,               \* missing roles the loop of run has not visited yet
    inner,              \* missing roles the loop of upgradeMissingOperatorRole has not visited yet
    createdMissingRoles,
    returnedErr,        \* run returned a non-nil error
    awsCalls,           \* mutating AWS calls made, counted per call and role
    printed,            \* what the run printed / generated locally
    confirms,           \* prompts asked by the run
    argv,               \* the command line arguments handed to the parse functions
    flags,              \* cmd.Flags(): name -> definition and value
    hasUnknownFlags,    \* the package variable hasUnknownFlags
    calls,              \* number of parse calls made so far
    lastCall,           \* the parse function called last
    failOnUnknown,      \* its failOnUnknown argument
    err,                \* the error it returned
    validArgs,          \* ParseKnownFlags: positions in argv of the arguments it kept
    unknownFlags,       \* ParseKnownFlags: the flag names it collected for its error
    response,           \* what transport.RoundTrip gives back to SendContext
    result              \* what SendContext returns: the response object and the error

npVars == <<nodePool, prompts, requests>>
upVars == <<mode, cluster, credRequests, awsRoles, isAccountRoleUpgradeNeed,
            isOperatorPolicyUpgradeNeeded, missingRolesInCS, todo, inner,
            createdMissingRoles, returnedErr, awsCalls, printed, confirms>>
argVars == <<argv, flags, hasUnknownFlags, calls, lastCall, failOnUnknown, err,
             validArgs, unknownFlags>>
sendVars == <<response, result>>
vars == <<pc, cmd, exitCode, reported, interactiveEnabled, changed, args, npVars, upVars,
          argVars, sendVars>>

(***************************************************************************)
(* Generated clients: values                                               *)
(***************************************************************************)
\* "if result.status >= 400"
ErrorStatus == 400

\* HTTP status codes of a response
Statuses == {200, 204, 399, 400, 404, 500}

\* response bodies: no byte at all, a JSON document, bytes that are no JSON
\* document, a body whose read fails
Bodies == {"empty", "json", "garbage", "broken"}

\* an optional integer parameter of a request (*int): nil or a value
IntPointers == {[isNil |-> TRUE, value |-> MaxPage]} \cup [isNil : {FALSE}, value : 1..MaxPage]

NilPointer == [isNil |-> TRUE, value |-> MaxPage]

NoResponse == [transportErr |-> FALSE, status |-> 0, body |-> "empty"]

\* SendContext has not returned: no response object, no error
NoResult == [present |-> FALSE, status |-> 0, err |-> "nil"]

\* no request is being sent
SendIdle == response = NoResponse /\ result = NoResult

(***************************************************************************)
(* Command line parsing: values                                            *)
(***************************************************************************)
\* flags declared on the command before any parsing: the help flag of
\* InitDefaultHelpFlag (bool, shorthand h) and one string flag
DeclaredNames == {"help", "cluster"}

\* flag names that are not declared on the command
UndeclaredNames == {"foo", "bar"}

FlagNames == DeclaredNames \cup UndeclaredNames

\* texts given as flag values; only "true" parses as a bool
Values == {"true", "v"}

\* "--": a long flag with an empty name
EOF == [kind |-> "long", name |-> "", val |-> ""]

\* "-h"
ShortHelp == [kind |-> "short", name |-> "h", val |-> ""]

\* one command line argument: "--name", "--name=val", "val", "--" or "-h"
Tokens ==
    [kind : {"long"}, name : FlagNames, val : {""}]
        \cup [kind : {"eq"}, name : FlagNames, val : Values]
        \cup [kind : {"val"}, name : {""}, val : Values]
        \cup {EOF, ShortHelp}

Argvs == UNION { [1..n -> Tokens] : n \in 0..MaxArgs }

NoFlag == [defined |-> FALSE, type |-> "", value |-> "", changed |-> FALSE]

DeclaredFlags ==
    [n \in FlagNames |->
        IF n = "help" THEN [defined |-> TRUE, type |-> "bool", value |-> "false", changed |-> FALSE]
        ELSE IF n = "cluster" THEN [defined |-> TRUE, type |-> "string", value |-> "", changed |-> FALSE]
        ELSE NoFlag]

ErrNil == "nil"
ErrHelp == "pflag: help requested"
ErrUnknownFlags == "Unknown flags passed"
ErrParse == "flags.Parse error"

\* the command line parsing is not running
ArgsIdle ==
    /\ argv = <<>> /\ flags = DeclaredFlags /\ hasUnknownFlags = FALSE /\ calls = 0
    /\ lastCall = "" /\ failOnUnknown = FALSE /\ err = ErrNil
    /\ validArgs = <<>> /\ unknownFlags = <<>>

(***************************************************************************)
(* Operator-role upgrade: values                                           *)
(***************************************************************************)
Operators == 1..NumOperators
Versions == 1..MaxVersion
\* args.upgradeVersion: 0 stands for the empty string
NoVersion == 0
ModeAuto == "auto"
ModeManual == "manual"
Modes == {ModeAuto, ModeManual}

NoCounts == [o \in Operators |-> 0]
NoAwsCalls == [upgradeOperatorRolePolicies |-> 0, ensureRole |-> NoCounts,
               attachRolePolicy |-> NoCounts]
NoPrinted == [remediation |-> 0, policyFiles |-> 0, policyCommands |-> 0, roleCommands |-> 0]
NoConfirms == [mode |-> 0, policy |-> 0, role |-> NoCounts]
NoCluster == [version |-> 1, operatorRoles |-> {}]

\* the upgrade command is not running
UpgradeIdle ==
    /\ mode = "" /\ cluster = NoCluster /\ credRequests = [o \in Operators |-> 1]
    /\ awsRoles = {} /\ isAccountRoleUpgradeNeed = FALSE
    /\ isOperatorPolicyUpgradeNeeded = FALSE /\ missingRolesInCS = {}
    /\ todo = {} /\ inner = {} /\ createdMissingRoles = 0 /\ returnedErr = FALSE
    /\ awsCalls = NoAwsCalls /\ printed = NoPrinted /\ confirms = NoConfirms

(***************************************************************************)
(* Node pools: values                                                      *)
(***************************************************************************)
UnsupportedFlags == {"multi-availability-zone", "availability-zone", "subnet", "name"}
ReplicaFlags == {"min-replicas", "max-replicas", "enable-autoscaling", "replicas"}

B2I(b) == IF b THEN 1 ELSE 0

\* value of an int flag: what the user gave if the flag is changed, else the default
FlagInts(ch, name) == IF name \in ch THEN IntVals ELSE {FlagDefault}

ArgsFor(ch) ==
    { [replicas |-> r, minReplicas |-> mn, maxReplicas |-> mx, autoscalingEnabled |-> en] :
        r \in FlagInts(ch, "replicas"),
        mn \in FlagInts(ch, "min-replicas"),
        mx \in FlagInts(ch, "max-replicas"),
        en \in (IF "enable-autoscaling" \in ch THEN BOOLEAN ELSE {FALSE}) }

\* cmv1.NodePool as read from the API: a fixed pool has a nil autoscaling section
\* (its nil-safe getters return 0), an autoscaled pool has bounds min <= max.
NoNodePool == [autoscaling |-> FALSE, min |-> 0, max |-> 0, replicas |-> 0]
ExistingNodePools ==
    { [autoscaling |-> FALSE, min |-> 0, max |-> 0, replicas |-> r] : r \in 0..MaxReplicas }
    \cup
    { p \in [autoscaling : {TRUE}, min : 0..MaxReplicas, max : 1..MaxReplicas, replicas : {0}] :
        p.min <= p.max }

\* interactive.GetBool / interactive.GetInt: the answer typed at the terminal,
\* or an error (interrupt, unparsable input)
BoolAnswers == { [err |-> FALSE, val |-> b] : b \in BOOLEAN } \cup { [err |-> TRUE, val |-> FALSE] }
IntAnswers == { [err |-> FALSE, val |-> v] : v \in IntVals } \cup { [err |-> TRUE, val |-> 0] }
NoBoolAnswer == [err |-> FALSE, val |-> FALSE]
NoIntAnswer == [err |-> FALSE, val |-> 0]
NoAnswers == [autoscaling |-> NoBoolAnswer, min |-> NoIntAnswer, max |-> NoIntAnswer,
              replicas |-> NoIntAnswer]
\* a run asks either for the two bounds or for the replica count, never for both
Answers ==
    [autoscaling : BoolAnswers, min : IntAnswers, max : IntAnswers, replicas : {NoIntAnswer}]
    \cup
    [autoscaling : BoolAnswers, min : {NoIntAnswer}, max : {NoIntAnswer}, replicas : IntAnswers]

Asked(q, dflt, a) == [q |-> q, dflt |-> dflt, err |-> a.err, val |-> a.val]
AskedBool(q, dflt, a) == [q |-> q, dflt |-> B2I(dflt), err |-> a.err, val |-> B2I(a.val)]

\* outcome of a command: exit code (0: returned normally), prompts, requests,
\* number of errors reported
Outcome(code, ps, rs, errs) == [exit |-> code, prompts |-> ps, requests |-> rs, reported |-> errs]
Failed(ps) == Outcome(1, ps, <<>>, 1)

\* the API call with the body: a failing call is reported and exits 1
Sent(ps, body, apiErr) ==
    IF apiErr THEN Outcome(1, ps, <<body>>, 1) ELSE Outcome(0, ps, <<body>>, 0)

(***************************************************************************)
(* Node pools: create                                                      *)
(***************************************************************************)
\* mutant: the check of replicas against autoscaling is missing
CreateRejectsReplicas_Never(autoscaling, isReplicasSet) == FALSE

\* "if the user set replicas and enabled autoscaling"
CreateRejectsReplicas(autoscaling, isReplicasSet) == autoscaling /\ isReplicasSet

\* "if the user set min/max replicas and hasn't enabled autoscaling"
CreateRejectsBounds(autoscaling, isMinReplicasSet, isMaxReplicasSet) ==
    ~autoscaling /\ (isMinReplicasSet \/ isMaxReplicasSet)

\* the cmv1.NodePool built for CreateNodePool
CreateBody(autoscaling, replicas, minReplicas, maxReplicas) ==
    IF autoscaling
    THEN [op |-> "CreateNodePool", hasReplicas |-> FALSE, replicas |-> 0,
          hasAutoscaling |-> TRUE, hasMin |-> TRUE, min |-> minReplicas,
          hasMax |-> TRUE, max |-> maxReplicas]
    ELSE [op |-> "CreateNodePool", hasReplicas |-> TRUE, replicas |-> replicas,
          hasAutoscaling |-> FALSE, hasMin |-> FALSE, min |-> 0,
          hasMax |-> FALSE, max |-> 0]

\* addNodePool, given the flags, the answers the user will give and whether
\* the CreateNodePool call fails
AddNodePoolRun(ch, ar, inter, ans, apiErr) ==
    LET isMinReplicasSet == "min-replicas" \in ch
        isMaxReplicasSet == "max-replicas" \in ch
        isAutoscalingSet == "enable-autoscaling" \in ch
        isReplicasSet == "replicas" \in ch
        askAutoscaling == ~isReplicasSet /\ ~ar.autoscalingEnabled /\ ~isAutoscalingSet /\ inter
        p1 == IF askAutoscaling
              THEN <<AskedBool("Enable autoscaling", ar.autoscalingEnabled, ans.autoscaling)>>
              ELSE <<>>
        autoscaling == IF askAutoscaling THEN ans.autoscaling.val ELSE ar.autoscalingEnabled
        askMin == inter \/ ~isMinReplicasSet
        p2 == IF askMin THEN p1 \o <<Asked("Min replicas", ar.minReplicas, ans.min)>> ELSE p1
        minReplicas == IF askMin THEN ans.min.val ELSE ar.minReplicas
        askMax == inter \/ ~isMaxReplicasSet
        p3 == IF askMax THEN p2 \o <<Asked("Max replicas", ar.maxReplicas, ans.max)>> ELSE p2
        maxReplicas == IF askMax THEN ans.max.val ELSE ar.maxReplicas
        askReplicas == inter \/ ~isReplicasSet
        p4 == IF askReplicas THEN p1 \o <<Asked("Replicas", ar.replicas, ans.replicas)>> ELSE p1
        replicas == IF askReplicas THEN ans.replicas.val ELSE ar.replicas
    IN  IF ch \cap UnsupportedFlags # {} THEN Failed(<<>>)
        ELSE IF askAutoscaling /\ ans.autoscaling.err THEN Failed(p1)
        ELSE IF autoscaling
        THEN IF CreateRejectsReplicas(autoscaling, isReplicasSet) THEN Failed(p1)
             ELSE IF askMin /\ ans.min.err THEN Failed(p2)
             ELSE IF askMax /\ ans.max.err THEN Failed(p3)
             ELSE Sent(p3, CreateBody(autoscaling, replicas, minReplicas, maxReplicas), apiErr)
        ELSE IF CreateRejectsBounds(autoscaling, isMinReplicasSet, isMaxReplicasSet) THEN Failed(p1)
             ELSE IF askReplicas /\ ans.replicas.err THEN Failed(p4)
             ELSE Sent(p4, CreateBody(autoscaling, replicas, minReplicas, maxReplicas), apiErr)

(***************************************************************************)
(* Node pools: edit                                                        *)
(***************************************************************************)
\* "if the user set min/max replicas and hasn't enabled autoscaling, or
\* existing is disabled"
EditRejectsBounds(isMinReplicasSet, isMaxReplicasSet, autoscaling, existingAutoscaling) ==
    (isMinReplicasSet \/ isMaxReplicasSet) /\ ~autoscaling /\ ~existingAutoscaling

\* "Prompt for min replicas if neither min or max is set or interactive mode"
EditAsksMin(isMinReplicasSet, isMaxReplicasSet, inter) ==
    ~isMinReplicasSet /\ (inter \/ ~isMaxReplicasSet)

\* "Prompt for max replicas if neither min or max is set or interactive mode"
EditAsksMax(isMinReplicasSet, isMaxReplicasSet, inter) ==
    ~isMaxReplicasSet /\ (inter \/ ~isMinReplicasSet)

\* getNodePoolReplicas: the values it returns, the prompts it asked and
\* whether it exited
GetNodePoolReplicas(ch, ar, inter, existing, ans) ==
    LET isMinReplicasSet == "min-replicas" \in ch
        isMaxReplicasSet == "max-replicas" \in ch
        isReplicasSet == "replicas" \in ch
        isAutoscalingSet == "enable-autoscaling" \in ch
        askAutoscaling == ~isAutoscalingSet /\ inter
        p1 == IF askAutoscaling
              THEN <<AskedBool("Enable autoscaling", existing.autoscaling, ans.autoscaling)>>
              ELSE <<>>
        autoscaling == IF isAutoscalingSet THEN ar.autoscalingEnabled
                       ELSE IF inter THEN ans.autoscaling.val
                       ELSE existing.autoscaling
        askMin == EditAsksMin(isMinReplicasSet, isMaxReplicasSet, inter)
        p2 == IF askMin THEN p1 \o <<Asked("Min replicas", existing.min, ans.min)>> ELSE p1
        minReplicas == IF askMin THEN ans.min.val ELSE ar.minReplicas
        askMax == EditAsksMax(isMinReplicasSet, isMaxReplicasSet, inter)
        p3 == IF askMax THEN p2 \o <<Asked("Max replicas", existing.max, ans.max)>> ELSE p2
        maxReplicas == IF askMax THEN ans.max.val ELSE ar.maxReplicas
        askReplicas == inter \/ ~isReplicasSet
        dfltReplicas == IF ~isReplicasSet THEN existing.replicas ELSE ar.replicas
        p4 == IF askReplicas THEN p1 \o <<Asked("Replicas", dfltReplicas, ans.replicas)>> ELSE p1
        replicas == IF askReplicas THEN ans.replicas.val ELSE ar.replicas
        Ret(ps, ex, rp, mn, mx) ==
            [exited |-> ex, prompts |-> ps, autoscaling |-> autoscaling,
             replicas |-> rp, minReplicas |-> mn, maxReplicas |-> mx]
    IN  IF EditRejectsBounds(isMinReplicasSet, isMaxReplicasSet,
                             ar.autoscalingEnabled, existing.autoscaling)
        THEN Ret(<<>>, TRUE, 0, 0, 0)
        ELSE IF askAutoscaling /\ ans.autoscaling.err THEN Ret(p1, TRUE, 0, 0, 0)
        ELSE IF autoscaling
        THEN IF askMin /\ ans.min.err THEN Ret(p2, TRUE, 0, 0, 0)
             ELSE IF askMax /\ ans.max.err THEN Ret(p3, TRUE, 0, 0, 0)
             ELSE Ret(p3, FALSE, ar.replicas, minReplicas, maxReplicas)
        ELSE IF askReplicas /\ ans.replicas.err THEN Ret(p4, TRUE, 0, 0, 0)
             ELSE Ret(p4, FALSE, replicas, ar.minReplicas, ar.maxReplicas)

\* "The number of machine pool replicas needs to be a non-negative integer"
EditRejectsNegative(autoscaling, replicas, isMinReplicasSet, minReplicas) ==
    (~autoscaling /\ replicas < 0) \/ (autoscaling /\ isMinReplicasSet /\ minReplicas < 0)

\* mutant: a zero bound is put into the autoscaling builder too
EditCarriesBound_NonNegative(bound) == bound >= 0

\* a bound is put into the autoscaling builder only when it is positive
EditCarriesBound(bound) == bound > 0

\* mutant: the replica count is set next to the autoscaling section
EditBody_Both(autoscaling, replicas, minReplicas, maxReplicas) ==
    [op |-> "UpdateNodePool", hasReplicas |-> TRUE, replicas |-> replicas,
     hasAutoscaling |-> autoscaling,
     hasMin |-> autoscaling /\ minReplicas > 0,
     min |-> IF autoscaling /\ minReplicas > 0 THEN minReplicas ELSE 0,
     hasMax |-> autoscaling /\ maxReplicas > 0,
     max |-> IF autoscaling /\ maxReplicas > 0 THEN maxReplicas ELSE 0]

\* the cmv1.NodePool built for UpdateNodePool
EditBody(autoscaling, replicas, minReplicas, maxReplicas) ==
    IF autoscaling
    THEN [op |-> "UpdateNodePool", hasReplicas |-> FALSE, replicas |-> 0,
          hasAutoscaling |-> TRUE,
          hasMin |-> EditCarriesBound(minReplicas),
          min |-> IF EditCarriesBound(minReplicas) THEN minReplicas ELSE 0,
          hasMax |-> EditCarriesBound(maxReplicas),
          max |-> IF EditCarriesBound(maxReplicas) THEN maxReplicas ELSE 0]
    ELSE [op |-> "UpdateNodePool", hasReplicas |-> TRUE, replicas |-> replicas,
          hasAutoscaling |-> FALSE, hasMin |-> FALSE, min |-> 0,
          hasMax |-> FALSE, max |-> 0]

\* editNodePool, after GetNodePool returned the existing pool
EditNodePoolRun(ch, ar, inter, existing, ans, apiErr) ==
    LET g == GetNodePoolReplicas(ch, ar, inter, existing, ans)
    IN  IF g.exited THEN Failed(g.prompts)
        ELSE IF EditRejectsNegative(g.autoscaling, g.replicas,
                                    "min-replicas" \in ch, g.minReplicas)
        THEN Failed(g.prompts)
        ELSE Sent(g.prompts,
                  EditBody(g.autoscaling, g.replicas, g.minReplicas, g.maxReplicas),
                  apiErr)

(***************************************************************************)
(* Node pools: the commands as actions                                     *)
(***************************************************************************)
InitNodePool ==
    /\ pc = "start"
    /\ exitCode = 0 - 1
    /\ reported = 0
    /\ interactiveEnabled \in BOOLEAN
    /\ prompts = <<>>
    /\ requests = <<>>
    /\ \/ /\ cmd = "create"
          /\ changed \in SUBSET (UnsupportedFlags \cup ReplicaFlags)
          /\ nodePool = NoNodePool
       \/ /\ cmd = "edit"
          /\ changed \in SUBSET ReplicaFlags
          /\ nodePool \in ExistingNodePools
    /\ args \in ArgsFor(changed)
    /\ UpgradeIdle
    /\ ArgsIdle
    /\ SendIdle

Finish(out) ==
    /\ pc' = "done"
    /\ exitCode' = out.exit
    /\ reported' = out.reported
    /\ prompts' = out.prompts
    /\ requests' = out.requests
    /\ UNCHANGED <<cmd, changed, args, nodePool, interactiveEnabled, upVars, argVars,
                   sendVars>>

addNodePool ==
    /\ cmd = "create" /\ pc = "start"
    /\ \E ans \in (IF changed \cap UnsupportedFlags # {} THEN {NoAnswers} ELSE Answers),
          apiErr \in BOOLEAN :
         Finish(AddNodePoolRun(changed, args, interactiveEnabled, ans, apiErr))

editNodePool ==
    /\ cmd = "edit" /\ pc = "start"
    /\ \E ans \in Answers, apiErr \in BOOLEAN :
         Finish(EditNodePoolRun(changed, args, interactiveEnabled, nodePool, ans, apiErr))

\* GetNodePool fails: "Failed to get machine pools for hosted cluster"
editNodePoolNotFound ==
    /\ cmd = "edit" /\ pc = "start"
    /\ Finish(Failed(<<>>))

NextNodePool == addNodePool \/ editNodePool \/ editNodePoolNotFound

SpecNodePool == InitNodePool /\ [][NextNodePool]_vars

(***************************************************************************)
(* Operator-role upgrade: run                                              *)
(***************************************************************************)
InitUpgrade ==
    /\ pc = "getMode"
    /\ cmd = "upgrade"
    /\ exitCode = 0 - 1
    /\ reported = 0
    /\ interactiveEnabled \in BOOLEAN
    /\ changed \in SUBSET {"mode"}
    /\ args \in [upgradeVersion : {NoVersion} \cup Versions]
    /\ nodePool = NoNodePool /\ prompts = <<>> /\ requests = <<>>
    /\ mode = ""
    /\ cluster \in [version : Versions, operatorRoles : SUBSET Operators]
    \* operators are interchangeable: they are numbered by increasing minimal version
    /\ credRequests \in { f \in [Operators -> Versions] :
                            \A o1, o2 \in Operators : o1 <= o2 => f[o1] <= f[o2] }
    /\ awsRoles = {}
    /\ isAccountRoleUpgradeNeed = FALSE
    /\ isOperatorPolicyUpgradeNeeded = FALSE
    /\ missingRolesInCS = {}
    /\ todo = {} /\ inner = {}
    /\ createdMissingRoles = 0
    /\ returnedErr = FALSE
    /\ awsCalls = NoAwsCalls /\ printed = NoPrinted /\ confirms = NoConfirms
    /\ ArgsIdle
    /\ SendIdle

\* what no step of the run changes
envVars == <<cmd, changed, args, nodePool, prompts, requests, cluster, credRequests, argVars,
             sendVars>>
\* the bookkeeping of the reconciliation
loopVars == <<missingRolesInCS, todo, inner, createdMissingRoles>>
logVars == <<awsCalls, printed, confirms>>

\* os.Exit(code) after n calls of Reporter.Errorf
Exit(code, n) ==
    /\ pc' = "done"
    /\ exitCode' = code
    /\ reported' = reported + n
    /\ returnedErr' = returnedErr

\* run returns err (nil or not), after n calls of Reporter.Errorf
Return(isErr, n) ==
    /\ pc' = "done"
    /\ exitCode' = exitCode
    /\ reported' = reported + n
    /\ returnedErr' = isErr

\* the step is over without a failure, after n calls of Reporter.Errorf
Goto(next, n) ==
    /\ pc' = next
    /\ exitCode' = exitCode
    /\ reported' = reported + n
    /\ returnedErr' = returnedErr

\* aws.GetMode: the value of --mode, an error if it is not a valid mode
getMode ==
    /\ pc = "getMode"
    /\ \/ /\ "mode" \in changed
          /\ Exit(1, 1)
          /\ UNCHANGED mode
       \/ /\ mode' \in (IF "mode" \in changed THEN Modes \cup {""} ELSE {""})
          /\ Goto("getDefaultVersion", 0)
    /\ UNCHANGED <<envVars, interactiveEnabled, awsRoles, isAccountRoleUpgradeNeed,
                   isOperatorPolicyUpgradeNeeded, loopVars, logVars>>

getDefaultVersion ==
    /\ pc = "getDefaultVersion"
    /\ \/ Exit(1, 1)
       \/ Goto("fetchCluster", 0)
    /\ UNCHANGED <<envVars, interactiveEnabled, mode, awsRoles, isAccountRoleUpgradeNeed,
                   isOperatorPolicyUpgradeNeeded, loopVars, logVars>>

\* OCMClient.GetAvailableUpgrades: the versions a cluster can be upgraded to
\* are later than its own
AvailableUpgrades(clusterVersion) == { v \in Versions : v > clusterVersion }

\* "Check that the version is valid"
ValidVersion(availableUpgrades, version) == version \in availableUpgrades

\* r.FetchCluster() and the check of --version against the available upgrades
fetchCluster ==
    /\ pc = "fetchCluster"
    /\ \/ Exit(1, 1)                       \* FetchCluster fails
       \/ /\ args.upgradeVersion = NoVersion
          /\ Goto("checkOperatorRoles", 0)
       \/ /\ args.upgradeVersion # NoVersion
          /\ \/ Exit(1, 1)                 \* GetAvailableUpgrades fails
             \/ \E availableUpgrades \in SUBSET AvailableUpgrades(cluster.version) :
                  IF availableUpgrades = {} THEN Exit(0, 0)
                  ELSE IF ~ValidVersion(availableUpgrades, args.upgradeVersion)
                  THEN Exit(1, 1)
                  ELSE Goto("checkOperatorRoles", 0)
    /\ UNCHANGED <<envVars, interactiveEnabled, mode, awsRoles, isAccountRoleUpgradeNeed,
                   isOperatorPolicyUpgradeNeeded, loopVars, logVars>>

\* the run goes on after reporting that the cluster has no operator roles
NoOperatorRolesOutcome == Goto("getPrefix", 1)

\* "Cluster '%s' doesnt have any operator roles associated with it"
checkOperatorRoles ==
    /\ pc = "checkOperatorRoles"
    /\ IF cluster.operatorRoles = {} THEN NoOperatorRolesOutcome ELSE Goto("getPrefix", 0)
    /\ UNCHANGED <<envVars, interactiveEnabled, mode, awsRoles, isAccountRoleUpgradeNeed,
                   isOperatorPolicyUpgradeNeeded, loopVars, logVars>>

\* the run goes on after reporting that the prefix could not be determined
PrefixErrorOutcome == Goto("getPath", 1)

\* aws.GetPrefixFromInstallerAccountRole
getPrefix ==
    /\ pc = "getPrefix"
    /\ \/ PrefixErrorOutcome
       \/ Goto("getPath", 0)
    /\ UNCHANGED <<envVars, interactiveEnabled, mode, awsRoles, isAccountRoleUpgradeNeed,
                   isOperatorPolicyUpgradeNeeded, loopVars, logVars>>

\* aws.GetPathFromAccountRole
getPath ==
    /\ pc = "getPath"
    /\ \/ Exit(1, 1)
       \/ Goto("checkAccountRoles", 0)
    /\ UNCHANGED <<envVars, interactiveEnabled, mode, awsRoles, isAccountRoleUpgradeNeed,
                   isOperatorPolicyUpgradeNeeded, loopVars, logVars>>

\* mutant: the remediation command is printed but the run goes on
AccountRoleUpgradeNeededOutcome_Continue ==
    /\ printed' = [printed EXCEPT !.remediation = @ + 1]
    /\ Goto("getCredRequests", 0)

\* what the run does when the account roles need an upgrade: print the
\* remediation command and exit 1
AccountRoleUpgradeNeededOutcome ==
    /\ printed' = [printed EXCEPT !.remediation = @ + 1]
    /\ Exit(1, 0)

\* "Check if account roles are up-to-date"
checkAccountRoles ==
    /\ pc = "checkAccountRoles"
    /\ \/ /\ Exit(1, 1)                    \* IsUpgradedNeededForAccountRolePolicies fails
          /\ UNCHANGED <<isAccountRoleUpgradeNeed, printed>>
       \/ \E need \in BOOLEAN :
            /\ isAccountRoleUpgradeNeed' = need
            /\ IF need THEN AccountRoleUpgradeNeededOutcome
               ELSE Goto("getCredRequests", 0) /\ UNCHANGED printed
    /\ UNCHANGED <<envVars, interactiveEnabled, mode, awsRoles,
                   isOperatorPolicyUpgradeNeeded, loopVars, awsCalls, confirms>>

getCredRequests ==
    /\ pc = "getCredRequests"
    /\ \/ Exit(1, 1)
       \/ Goto("checkOperatorPolicies", 0)
    /\ UNCHANGED <<envVars, interactiveEnabled, mode, awsRoles, isAccountRoleUpgradeNeed,
                   isOperatorPolicyUpgradeNeeded, loopVars, logVars>>

\* IsUpgradedNeededForOperatorRolePoliciesUsingPrefix
checkOperatorPolicies ==
    /\ pc = "checkOperatorPolicies"
    /\ \/ /\ Exit(1, 1)
          /\ UNCHANGED isOperatorPolicyUpgradeNeeded
       \/ /\ isOperatorPolicyUpgradeNeeded' \in BOOLEAN
          /\ Goto("findMissing", 0)
    /\ UNCHANGED <<envVars, interactiveEnabled, mode, awsRoles, isAccountRoleUpgradeNeed,
                   loopVars, logVars>>

\* mutant: --version is ignored
TargetVersion_ClusterOnly(upgradeVersion, clusterVersion) == clusterVersion

\* the version the roles are checked against: --version, or the cluster's own
TargetVersion(upgradeVersion, clusterVersion) ==
    IF upgradeVersion = NoVersion THEN clusterVersion ELSE upgradeVersion

\* the operator roles the given version requires
RequiredOperatorRoles(creds, version) == { o \in Operators : creds[o] <= version }

\* OCMClient.FindMissingOperatorRolesForUpgrade
FindMissingOperatorRolesForUpgrade(cl, creds, version) ==
    RequiredOperatorRoles(creds, version) \ cl.operatorRoles

\* mutant: the run goes on although nothing needs upgrading
AlreadyUpToDate_Never(missing, policyUpgradeNeeded) == FALSE

\* "len(missingRolesInCS) <= 0 && !isOperatorPolicyUpgradeNeeded": the
\* operator roles "are already up-to-date"
AlreadyUpToDate(missing, policyUpgradeNeeded) == missing = {} /\ ~policyUpgradeNeeded

\* "Check if the upgrade is needed for the operators"
findMissing ==
    /\ pc = "findMissing"
    /\ \/ /\ Return(TRUE, 0)               \* return err
          /\ UNCHANGED <<missingRolesInCS, todo>>
       \/ LET missing == FindMissingOperatorRolesForUpgrade(cluster, credRequests,
                             TargetVersion(args.upgradeVersion, cluster.version))
          IN  /\ missingRolesInCS' = missing
              /\ todo' = missing
              /\ IF AlreadyUpToDate(missing, isOperatorPolicyUpgradeNeeded)
                 THEN Return(FALSE, 0)     \* return nil
                 ELSE Goto("getPolicies", 0)
    /\ UNCHANGED <<envVars, interactiveEnabled, mode, awsRoles, isAccountRoleUpgradeNeed,
                   isOperatorPolicyUpgradeNeeded, inner, createdMissingRoles, logVars>>

\* "Determine if interactive mode is needed", then OCMClient.GetPolicies
getPolicies ==
    /\ pc = "getPolicies"
    /\ interactiveEnabled' = (interactiveEnabled \/ "mode" \notin changed)
    /\ \/ Exit(1, 1)
       \/ Goto("getEnv", 0)
    /\ UNCHANGED <<envVars, mode, awsRoles, isAccountRoleUpgradeNeed,
                   isOperatorPolicyUpgradeNeeded, loopVars, logVars>>

getEnv ==
    /\ pc = "getEnv"
    /\ \/ Exit(1, 1)
       \/ Goto("handleModeFlag", 0)
    /\ UNCHANGED <<envVars, interactiveEnabled, mode, awsRoles, isAccountRoleUpgradeNeed,
                   isOperatorPolicyUpgradeNeeded, loopVars, logVars>>

\* handleModeFlag: in interactive mode the user picks one of aws.Modes
handleModeFlag ==
    /\ pc = "handleModeFlag"
    /\ IF interactiveEnabled
       THEN /\ confirms' = [confirms EXCEPT !.mode = @ + 1]
            /\ \/ /\ Exit(1, 1)
                  /\ UNCHANGED mode
               \/ /\ mode' \in Modes
                  /\ Goto("upgradeOperatorPolicies", 0)
       ELSE /\ Goto("upgradeOperatorPolicies", 0)
            /\ UNCHANGED <<mode, confirms>>
    /\ UNCHANGED <<envVars, interactiveEnabled, awsRoles, isAccountRoleUpgradeNeed,
                   isOperatorPolicyUpgradeNeeded, loopVars, awsCalls, printed>>

\* mutant: every valid mode makes the change itself
AppliesChanges_AnyMode(m) == m \in Modes

\* "case aws.ModeAuto": the run makes the change itself
AppliesChanges(m) == m = ModeAuto

\* "case aws.ModeManual": the run only prints the commands
PrintsCommands(m) == m = ModeManual

\* upgradeOperatorPolicies, called when the operator policies need an upgrade
upgradeOperatorPolicies ==
    /\ pc = "upgradeOperatorPolicies"
    /\ IF ~isOperatorPolicyUpgradeNeeded
       THEN /\ Goto("checkRoleExists", 0)
            /\ UNCHANGED logVars
       ELSE IF AppliesChanges(mode)
       THEN \* confirm.Prompt "Upgrade the operator role policy to version %s?"
            /\ confirms' = [confirms EXCEPT !.policy = @ + 1]
            /\ UNCHANGED printed
            /\ \/ /\ Goto("checkRoleExists", 0)        \* answered no
                  /\ UNCHANGED awsCalls
               \/ /\ awsCalls' = [awsCalls EXCEPT !.upgradeOperatorRolePolicies = @ + 1]
                  /\ \/ Exit(1, 2)                     \* reported by callee and by run
                     \/ Goto("checkRoleExists", 0)
       ELSE IF PrintsCommands(mode)
       THEN /\ UNCHANGED <<awsCalls, confirms>>
            /\ \/ /\ printed' = [printed EXCEPT !.policyFiles = @ + 1]
                  /\ Exit(1, 1)                        \* GeneratePolicyFiles fails
               \/ /\ printed' = [printed EXCEPT !.policyFiles = @ + 1,
                                                !.policyCommands = @ + 1]
                  /\ Goto("checkRoleExists", 0)
       ELSE /\ Exit(1, 2)                              \* "Invalid mode"
            /\ UNCHANGED logVars
    /\ UNCHANGED <<envVars, interactiveEnabled, mode, awsRoles, isAccountRoleUpgradeNeed,
                   isOperatorPolicyUpgradeNeeded, loopVars>>

\* AWSClient.CheckRoleExists: the role exists if this run created it or if it
\* was in the account before the run (each role is looked up once, so what
\* the account held before is chosen at the lookup)
CheckRoleExists(created, operator, existedBefore) == operator \in created \/ existedBefore

\* one iteration of "for _, operator := range missingRolesInCS", or its end
checkRoleExists ==
    /\ pc = "checkRoleExists"
    /\ IF todo = {}
       THEN /\ Return(FALSE, 0)
            /\ UNCHANGED <<todo, inner>>
       ELSE \E operator \in todo :
              /\ todo' = todo \ {operator}
              /\ \/ /\ Return(TRUE, 1)                 \* CheckRoleExists fails
                    /\ UNCHANGED inner
                 \/ \E existedBefore \in BOOLEAN :
                      IF CheckRoleExists(awsRoles, operator, existedBefore)
                      THEN Goto("checkRoleExists", 0) /\ UNCHANGED inner
                      ELSE Goto("createOperatorRole", 0) /\ inner' = missingRolesInCS
    /\ UNCHANGED <<envVars, interactiveEnabled, mode, awsRoles, isAccountRoleUpgradeNeed,
                   isOperatorPolicyUpgradeNeeded, missingRolesInCS, createdMissingRoles,
                   logVars>>

\* createOperatorRole: in manual mode print the commands for the missing
\* roles, in automatic mode enter upgradeMissingOperatorRole
createOperatorRole ==
    /\ pc = "createOperatorRole"
    /\ IF AppliesChanges(mode)
       THEN /\ Goto("upgradeMissingOperatorRole", 0)
            /\ UNCHANGED <<printed, createdMissingRoles>>
       ELSE IF PrintsCommands(mode)
       THEN \/ /\ Exit(1, 1)                           \* BuildMissingOperatorRoleCommand fails
               /\ UNCHANGED <<printed, createdMissingRoles>>
            \/ /\ printed' = [printed EXCEPT !.roleCommands = @ + 1]
               /\ createdMissingRoles' = createdMissingRoles + 1
               /\ Goto("checkRoleExists", 0)
       ELSE /\ Exit(1, 1)                              \* "Invalid mode"
            /\ UNCHANGED <<printed, createdMissingRoles>>
    /\ UNCHANGED <<envVars, interactiveEnabled, mode, awsRoles, isAccountRoleUpgradeNeed,
                   isOperatorPolicyUpgradeNeeded, missingRolesInCS, todo, inner,
                   awsCalls, confirms>>

\* mutant: the failure is reported and the loop goes on with the next role
RoleCreationFailedOutcome_NextRole == Goto("upgradeMissingOperatorRole", 1)

\* upgradeMissingOperatorRole returns the error to createOperatorRole and run:
\* "r.Reporter.Errorf("%s", err); os.Exit(1)"
RoleCreationFailedOutcome == Exit(1, 1)

\* one iteration of "for _, operator := range missingRoles" in
\* upgradeMissingOperatorRole, or its end and the return to the loop of run
upgradeMissingOperatorRole ==
    /\ pc = "upgradeMissingOperatorRole"
    /\ IF inner = {}
       THEN /\ createdMissingRoles' = createdMissingRoles + 1
            /\ Goto("checkRoleExists", 0)
            /\ UNCHANGED <<inner, awsRoles, awsCalls, confirms>>
       ELSE \E operator \in inner :
              /\ inner' = inner \ {operator}
              /\ UNCHANGED createdMissingRoles
              \* confirm.Prompt "Create the '%s' role?"
              /\ confirms' = [confirms EXCEPT !.role[operator] = @ + 1]
              /\ \/ /\ Goto("upgradeMissingOperatorRole", 0)     \* answered no
                    /\ UNCHANGED <<awsRoles, awsCalls>>
                 \/ /\ RoleCreationFailedOutcome        \* GenerateOperatorRolePolicyDoc fails
                    /\ UNCHANGED <<awsRoles, awsCalls>>
                 \/ /\ RoleCreationFailedOutcome        \* EnsureRole fails
                    /\ awsCalls' = [awsCalls EXCEPT !.ensureRole[operator] = @ + 1]
                    /\ UNCHANGED awsRoles
                 \/ /\ awsRoles' = awsRoles \cup {operator}
                    /\ awsCalls' = [awsCalls EXCEPT !.ensureRole[operator] = @ + 1,
                                                    !.attachRolePolicy[operator] = @ + 1]
                    /\ \/ RoleCreationFailedOutcome     \* AttachRolePolicy fails
                       \/ Goto("upgradeMissingOperatorRole", 0)
    /\ UNCHANGED <<envVars, interactiveEnabled, mode, isAccountRoleUpgradeNeed,
                   isOperatorPolicyUpgradeNeeded, missingRolesInCS, todo, printed>>

NextUpgrade ==
    \/ getMode \/ getDefaultVersion \/ fetchCluster \/ checkOperatorRoles
    \/ getPrefix \/ getPath \/ checkAccountRoles \/ getCredRequests
    \/ checkOperatorPolicies \/ findMissing \/ getPolicies \/ getEnv
    \/ handleModeFlag \/ upgradeOperatorPolicies \/ checkRoleExists
    \/ createOperatorRole \/ upgradeMissingOperatorRole

SpecUpgrade == InitUpgrade /\ [][NextUpgrade]_vars

(***************************************************************************)
(* Command line parsing: the flag set                                      *)
(***************************************************************************)
\* flags.Lookup(name) != nil
Lookup(fl, name) == name \in DOMAIN fl /\ fl[name].defined

\* flags.BoolVar / flags.StringVar of an undefined name followed by flags.Set
DefineAndSet(fl, name, type, value) ==
    [fl EXCEPT ![name] = [defined |-> TRUE, type |-> type, value |-> value,
                          changed |-> TRUE]]

\* the text of an argument; "-" stands for a text that starts with a dash
Text(arg) == IF arg.kind = "val" THEN arg.val ELSE "-"

\* setting a defined flag fails when the text is no value of its type
SetFails(fl, name, value) == fl[name].type = "bool" /\ value \notin {"true", "false"}

SetValue(fl, name, value) == [fl EXCEPT ![name].value = value, ![name].changed = TRUE]

\* flags.Parse(a) from position i on: "--" ends the flags, a bool flag takes
\* no argument, any other flag takes the next argument as its value, an
\* undefined flag or a bad value is an error, other arguments are positional
RECURSIVE FlagSetParse(_, _, _)
FlagSetParse(fl, a, i) ==
    IF i > Len(a) THEN [flags |-> fl, failed |-> FALSE]
    ELSE LET arg == a[i]
             name == IF arg.kind = "short" THEN "help" ELSE arg.name
         IN  IF arg.kind = "val" THEN FlagSetParse(fl, a, i + 1)
             ELSE IF arg = EOF THEN [flags |-> fl, failed |-> FALSE]
             ELSE IF ~Lookup(fl, name) THEN [flags |-> fl, failed |-> TRUE]
             ELSE IF arg.kind = "eq"
             THEN IF SetFails(fl, name, arg.val) THEN [flags |-> fl, failed |-> TRUE]
                  ELSE FlagSetParse(SetValue(fl, name, arg.val), a, i + 1)
             ELSE IF fl[name].type = "bool"
             THEN FlagSetParse(SetValue(fl, name, "true"), a, i + 1)
             ELSE IF i < Len(a)
             THEN FlagSetParse(SetValue(fl, name, Text(a[i + 1])), a, i + 2)
             ELSE [flags |-> fl, failed |-> TRUE]

\* what the parse functions return after flags.Parse: its error, else
\* pflag.ErrHelp when the help flag is true, else nil
ErrorAfterParse(parsed) ==
    IF parsed.failed THEN ErrParse
    ELSE IF parsed.flags["help"].value = "true" THEN ErrHelp
    ELSE ErrNil

(***************************************************************************)
(* Command line parsing: ParseUnknownFlags, ParseKnownFlags                *)
(***************************************************************************)
\* strings.HasPrefix(arg, "-")
HasPrefixDash(arg) == arg.kind \in {"long", "eq", "short"}

\* the loop of ParseUnknownFlags from position i on; prevArg is the unknown
\* long flag seen last whose value has not been seen yet, "" if there is none
RECURSIVE UnknownLoop(_, _, _, _, _)
UnknownLoop(fl, has, a, i, prevArg) ==
    IF i > Len(a) THEN [flags |-> fl, hasUnknownFlags |-> has]
    ELSE LET arg == a[i]
             \* "If there are two consecutive flags, assume we've already dealt
             \* with the previous one by setting it as 'true'."
             consecutive == HasPrefixDash(arg) /\ prevArg # ""
             fl1 == IF consecutive THEN DefineAndSet(fl, prevArg, "bool", "true") ELSE fl
             prev1 == IF consecutive THEN "" ELSE prevArg
             has1 == has \/ consecutive
         IN  IF arg.kind = "long"
             THEN \* "Skip EOF and known flags"
                  IF arg.name = "" \/ Lookup(fl1, arg.name)
                  THEN UnknownLoop(fl1, has1, a, i + 1, prev1)
                  ELSE UnknownLoop(fl1, has1, a, i + 1, arg.name)
             ELSE IF prev1 # ""
             THEN \* "The value for the previous flag"
                  UnknownLoop(DefineAndSet(fl1, prev1, "string", Text(arg)), TRUE, a, i + 1, "")
             ELSE IF arg.kind = "eq" /\ ~Lookup(fl1, arg.name)
             THEN \* "Only consider unknown flags with values"
                  UnknownLoop(DefineAndSet(fl1, arg.name, "string", arg.val), TRUE, a, i + 1, prev1)
             ELSE UnknownLoop(fl1, has1, a, i + 1, prev1)

\* ParseUnknownFlags(cmd, argv): the flag set and hasUnknownFlags it leaves
\* and the error it returns
ParseUnknownFlags(fl, has, a) ==
    LET looped == UnknownLoop(fl, has, a, 1, "")
        parsed == FlagSetParse(looped.flags, a, 1)
    IN  [flags |-> parsed.flags, hasUnknownFlags |-> looped.hasUnknownFlags,
         err |-> ErrorAfterParse(parsed)]

\* the loop of ParseKnownFlags from position i on: the positions it keeps
\* (validArgs), whether the next argument is taken as a value, and the flag
\* names it collects for the error
RECURSIVE KnownLoop(_, _, _, _, _, _, _)
KnownLoop(fl, a, fail, i, valid, upcomingValue, unknown) ==
    IF i > Len(a) THEN [validArgs |-> valid, unknownFlags |-> unknown]
    ELSE LET arg == a[i]
         IN  IF arg.kind \in {"long", "short"}
             THEN IF Lookup(fl, arg.name)
                  THEN KnownLoop(fl, a, fail, i + 1, Append(valid, i),
                                 upcomingValue \/ fl[arg.name].type # "bool", unknown)
                  ELSE IF fail
                  THEN KnownLoop(fl, a, fail, i + 1, valid, upcomingValue,
                                 Append(unknown, arg.name))
                  ELSE KnownLoop(fl, a, fail, i + 1, valid, upcomingValue, unknown)
             ELSE IF arg.kind = "eq"
             THEN IF Lookup(fl, arg.name)
                  THEN KnownLoop(fl, a, fail, i + 1, Append(valid, i), FALSE, unknown)
                  ELSE IF fail
                  THEN KnownLoop(fl, a, fail, i + 1, valid, FALSE, Append(unknown, arg.name))
                  ELSE KnownLoop(fl, a, fail, i + 1, valid, FALSE, unknown)
             ELSE IF upcomingValue
             THEN KnownLoop(fl, a, fail, i + 1, Append(valid, i), FALSE, unknown)
             ELSE KnownLoop(fl, a, fail, i + 1, valid, upcomingValue, unknown)

\* ParseKnownFlags(cmd, argv, failOnUnknown): the flag set it leaves, the
\* error it returns, the arguments it kept and the names in its error
ParseKnownFlags(fl, a, fail) ==
    LET looped == KnownLoop(fl, a, fail, 1, <<>>, FALSE, <<>>)
        kept == [k \in 1..Len(looped.validArgs) |-> a[looped.validArgs[k]]]
        parsed == FlagSetParse(fl, kept, 1)
    IN  IF fail /\ looped.unknownFlags # <<>>
        THEN [flags |-> fl, err |-> ErrUnknownFlags,
              validArgs |-> looped.validArgs, unknownFlags |-> looped.unknownFlags]
        ELSE [flags |-> parsed.flags, err |-> ErrorAfterParse(parsed),
              validArgs |-> looped.validArgs, unknownFlags |-> looped.unknownFlags]

(***************************************************************************)
(* Command line parsing: the calls as actions                              *)
(***************************************************************************)
InitArgs ==
    /\ pc = "parse"
    /\ cmd = "parse"
    /\ exitCode = 0 - 1
    /\ reported = 0
    /\ interactiveEnabled = FALSE
    /\ changed = {}
    /\ args = [upgradeVersion |-> NoVersion]
    /\ nodePool = NoNodePool /\ prompts = <<>> /\ requests = <<>>
    /\ UpgradeIdle
    /\ argv \in Argvs
    /\ flags = DeclaredFlags
    /\ hasUnknownFlags = FALSE
    /\ calls = 0
    /\ lastCall = "" /\ failOnUnknown = FALSE /\ err = ErrNil
    /\ validArgs = <<>> /\ unknownFlags = <<>>
    /\ SendIdle

parseUnknownFlags ==
    /\ cmd = "parse" /\ calls < MaxCalls
    /\ LET r == ParseUnknownFlags(flags, hasUnknownFlags, argv)
       IN  /\ flags' = r.flags
           /\ hasUnknownFlags' = r.hasUnknownFlags
           /\ err' = r.err
    /\ calls' = calls + 1
    /\ lastCall' = "ParseUnknownFlags"
    /\ failOnUnknown' = FALSE
    /\ validArgs' = <<>> /\ unknownFlags' = <<>>
    /\ UNCHANGED <<pc, cmd, exitCode, reported, interactiveEnabled, changed, args,
                   npVars, upVars, argv, sendVars>>

parseKnownFlags ==
    /\ cmd = "parse" /\ calls < MaxCalls
    /\ \E fail \in BOOLEAN :
         LET r == ParseKnownFlags(flags, argv, fail)
         IN  /\ flags' = r.flags
             /\ err' = r.err
             /\ validArgs' = r.validArgs
             /\ unknownFlags' = r.unknownFlags
             /\ failOnUnknown' = fail
    /\ calls' = calls + 1
    /\ lastCall' = "ParseKnownFlags"
    /\ UNCHANGED <<pc, cmd, exitCode, reported, interactiveEnabled, changed, args,
                   npVars, upVars, argv, hasUnknownFlags, sendVars>>

NextArgs == parseUnknownFlags \/ parseKnownFlags

SpecArgs == InitArgs /\ [][NextArgs]_vars

(***************************************************************************)
(* Generated clients: SendContext                                          *)
(***************************************************************************)
\* reader.Peek(1) returns io.EOF: the body has no byte
PeekIsEOF(body) == body = "empty"

\* errors.UnmarshalErrorStatus / readLogsListResponse /
\* readMachineTypeGetResponse return an error: the body is no JSON document or
\* cannot be read
ReadFails(body) == body \in {"garbage", "broken"}

\* SendContext of LogsListRequest and of MachineTypeGetRequest, from the
\* RoundTrip call on: the result and the error it returns
SendContext(resp) ==
    IF resp.transportErr
    THEN [present |-> FALSE, status |-> 0, err |-> "transport"]
    ELSE IF PeekIsEOF(resp.body)
    THEN [present |-> TRUE, status |-> resp.status, err |-> "nil"]
    ELSE IF resp.status >= ErrorStatus
    THEN IF ReadFails(resp.body)
         THEN [present |-> TRUE, status |-> resp.status, err |-> "unmarshal"]
         ELSE [present |-> TRUE, status |-> resp.status, err |-> "result.err"]
    ELSE IF ReadFails(resp.body)
    THEN [present |-> TRUE, status |-> resp.status, err |-> "read"]
    ELSE [present |-> TRUE, status |-> resp.status, err |-> "nil"]

\* the query of the http.Request handed to RoundTrip: "page" and "size" are
\* added when the request has them
Query(page, size) ==
    [hasPage |-> ~page.isNil, page |-> page.value,
     hasSize |-> ~size.isNil, size |-> size.value]

InitSend ==
    /\ pc = "send"
    /\ exitCode = 0 - 1
    /\ reported = 0
    /\ interactiveEnabled = FALSE
    /\ changed = {}
    \* args: the page and size fields of the request
    /\ \/ /\ cmd = "LogsListRequest"
          /\ args \in [page : IntPointers, size : IntPointers]
       \/ /\ cmd = "MachineTypeGetRequest"
          /\ args = [page |-> NilPointer, size |-> NilPointer]
    /\ nodePool = NoNodePool /\ prompts = <<>> /\ requests = <<>>
    /\ UpgradeIdle
    /\ ArgsIdle
    /\ response \in ([transportErr : {FALSE}, status : Statuses, body : Bodies]
                        \cup {[transportErr |-> TRUE, status |-> 0, body |-> "empty"]})
    /\ result = NoResult

\* SendContext has handed a GET request with query q to RoundTrip and returns res
Returned(q, res) ==
    /\ pc' = "done"
    /\ requests' = Append(requests, [method |-> "GET", query |-> q])
    /\ result' = res
    /\ UNCHANGED <<cmd, exitCode, reported, interactiveEnabled, changed, args, nodePool,
                   prompts, upVars, argVars, response>>

logsListSendContext ==
    /\ cmd = "LogsListRequest" /\ pc = "send"
    /\ Returned(Query(args.page, args.size), SendContext(response))

machineTypeGetSendContext ==
    /\ cmd = "MachineTypeGetRequest" /\ pc = "send"
    /\ Returned(Query(NilPointer, NilPointer), SendContext(response))

NextSend == logsListSendContext \/ machineTypeGetSendContext

SpecSend == InitSend /\ [][NextSend]_vars

(***************************************************************************)
(* Properties                                                              *)
(***************************************************************************)
AnyAwsCall ==
    \/ awsCalls.upgradeOperatorRolePolicies > 0
    \/ \E o \in Operators : awsCalls.ensureRole[o] > 0 \/ awsCalls.attachRolePolicy[o] > 0

\* C1: a run of the operator-role upgrade whose mode is manual never calls
\* UpgradeOperatorRolePolicies, EnsureRole or AttachRolePolicy, whatever
\* roles are missing and whatever policies are stale.
C1_ManualModeNoRemoteCall ==
    (cmd = "upgrade" /\ mode = ModeManual) => ~AnyAwsCall

C1_Witness ==
    /\ cmd = "upgrade" /\ pc = "done" /\ mode = ModeManual
    /\ printed.policyFiles > 0 /\ printed.policyCommands > 0 /\ printed.roleCommands > 0

\* C2: when the account-role policy check says an upgrade is needed, the run
\* is over with exit code 1, the remediation command was printed, and no
\* operator policy upgrade, role creation, policy attachment or command
\* generation happened.
C2_AccountRolesFirst ==
    (cmd = "upgrade" /\ isAccountRoleUpgradeNeed) =>
        /\ pc = "done" /\ exitCode = 1
        /\ printed.remediation = 1
        /\ ~AnyAwsCall
        /\ printed.policyFiles = 0 /\ printed.policyCommands = 0 /\ printed.roleCommands = 0

C2_Witness ==
    cmd = "upgrade" /\ isAccountRoleUpgradeNeed /\ pc = "done" /\ printed.remediation = 1

\* C3: a create with --replicas set and autoscaling enabled ends with exit
\* code 1 and CreateNodePool is never called.
C3_CreateRejectsReplicasWithAutoscaling ==
    (cmd = "create" /\ pc = "done" /\ "replicas" \in changed /\ args.autoscalingEnabled) =>
        exitCode = 1 /\ requests = <<>>

C3_Witness ==
    /\ cmd = "create" /\ pc = "done" /\ "replicas" \in changed /\ args.autoscalingEnabled
    /\ changed \cap UnsupportedFlags = {}
    /\ exitCode = 1

\* C4 (as claimed): an edit with --replicas set and --enable-autoscaling
\* enabled ends with exit code 1 and UpdateNodePool is never called.
C4_EditRejectsReplicasWithAutoscaling ==
    (cmd = "edit" /\ pc = "done" /\ "replicas" \in changed /\ args.autoscalingEnabled) =>
        exitCode = 1 /\ requests = <<>>

\* C5 (as claimed): when --min-replicas and --max-replicas are both set with
\* min > max, the command is rejected and no request is sent that carries
\* min > max.
C5_MinNotAboveMax ==
    (/\ cmd \in {"create", "edit"} /\ pc = "done"
     /\ {"min-replicas", "max-replicas"} \subseteq changed
     /\ args.minReplicas > args.maxReplicas) =>
        /\ exitCode = 1
        /\ \A i \in 1..Len(requests) :
             ~(requests[i].hasMin /\ requests[i].hasMax /\ requests[i].min > requests[i].max)

C7_ReplicasXorAutoscaling ==
    \A i \in 1..Len(requests) : requests[i].hasReplicas # requests[i].hasAutoscaling

C7_Witness ==
    /\ cmd = "edit" /\ pc = "done" /\ "replicas" \in changed
    /\ Len(requests) = 1 /\ requests[1].hasAutoscaling

\* C8 (as claimed): no body passed to CreateNodePool or UpdateNodePool carries
\* a negative replica count or a negative autoscaling bound.
C8_NonNegativeCounts ==
    \A i \in 1..Len(requests) :
        /\ requests[i].hasReplicas => requests[i].replicas >= 0
        /\ requests[i].hasMin => requests[i].min >= 0
        /\ requests[i].hasMax => requests[i].max >= 0

\* C9 (as claimed): once the upgrade run has reported an error, the run is over
\* with exit code 1 or a non-nil returned error; no later step executes.
C9_ReportedErrorEndsRun ==
    (cmd = "upgrade" /\ reported > 0) => (pc = "done" /\ (exitCode = 1 \/ returnedErr))

\* C10: on edit of an autoscaled pool with only one of --min-replicas /
\* --max-replicas given, when every bound prompt was answered with its
\* default, the update request omits the other bound or carries the pool's
\* existing value for it.
C10_UnsetBoundPreserved ==
    LET defaultsKept ==
            \A j \in 1..Len(prompts) :
                prompts[j].q \in {"Min replicas", "Max replicas"} =>
                    ~prompts[j].err /\ prompts[j].val = prompts[j].dflt
    IN  (cmd = "edit" /\ pc = "done" /\ nodePool.autoscaling /\ defaultsKept) =>
        \A i \in 1..Len(requests) :
            /\ ("min-replicas" \in changed /\ "max-replicas" \notin changed) =>
                 (~requests[i].hasMax \/ requests[i].max = nodePool.max)
            /\ ("max-replicas" \in changed /\ "min-replicas" \notin changed) =>
                 (~requests[i].hasMin \/ requests[i].min = nodePool.min)

C10_Witness ==
    /\ cmd = "edit" /\ pc = "done" /\ nodePool.autoscaling
    /\ "min-replicas" \in changed /\ "max-replicas" \notin changed
    /\ Len(prompts) > 0 /\ prompts[Len(prompts)].q = "Max replicas"
    /\ ~prompts[Len(prompts)].err /\ prompts[Len(prompts)].val = prompts[Len(prompts)].dflt
    /\ Len(requests) = 1 /\ requests[1].hasMax /\ requests[1].max = nodePool.max
    /\ requests[1].hasMin /\ requests[1].min # nodePool.min

\* C11 (as claimed): when an edit sends an update with autoscaling enabled and
\* --min-replicas (resp. --max-replicas) was given a value v >= 0, the body
\* passed to UpdateNodePool carries autoscaling min (resp. max) equal to v,
\* also for v = 0.
C11_ExplicitBoundOverrides ==
    (cmd = "edit" /\ pc = "done") =>
        \A i \in 1..Len(requests) :
            requests[i].hasAutoscaling =>
                /\ ("min-replicas" \in changed /\ args.minReplicas >= 0) =>
                     (requests[i].hasMin /\ requests[i].min = args.minReplicas)
                /\ ("max-replicas" \in changed /\ args.maxReplicas >= 0) =>
                     (requests[i].hasMax /\ requests[i].max = args.maxReplicas)

\* C12 (as claimed): an edit with --min-replicas or --max-replicas set that
\* ends with autoscaling disabled is rejected with exit code 1 and calls
\* UpdateNodePool not at all: with a bound set, every body passed to
\* UpdateNodePool has an autoscaling section, and an edit that passed none
\* ended with exit code 1.
C12_BoundsNeverSilentlyIgnored ==
    (cmd = "edit" /\ pc = "done" /\ changed \cap {"min-replicas", "max-replicas"} # {}) =>
        /\ \A i \in 1..Len(requests) : requests[i].hasAutoscaling
        /\ requests = <<>> => exitCode = 1

\* C13: in automatic mode, the step of upgradeMissingOperatorRole in which
\* policy-document generation, EnsureRole or AttachRolePolicy fails (the one
\* step of the loop that reports an error) ends the run with exit code 1; once
\* the run is over no EnsureRole or AttachRolePolicy call is made and no role
\* changes, and no step ever removes a role that was created.
C13_RoleCreationFailureEndsRun ==
    [][ /\ (pc = "upgradeMissingOperatorRole" /\ reported' > reported) =>
             (pc' = "done" /\ exitCode' = 1)
        /\ pc = "done" => (awsCalls' = awsCalls /\ awsRoles' = awsRoles)
        /\ awsRoles \subseteq awsRoles' ]_vars

\* EnsureRole failed for one role after another role had been created, with
\* roles of the run still unvisited; the created role is still there
C13_Witness ==
    /\ cmd = "upgrade" /\ pc = "done" /\ exitCode = 1 /\ mode = ModeAuto
    /\ \E failed \in missingRolesInCS, created \in awsRoles :
         /\ failed # created
         /\ awsCalls.ensureRole[failed] > awsCalls.attachRolePolicy[failed]
         /\ failed \notin awsRoles
         /\ awsCalls.ensureRole[created] = 1
    /\ todo # {}

\* C18 (as claimed): in automatic mode a role receives at most one "Create the
\* role?" prompt and at most one EnsureRole call during one upgrade run.
C18_RoleHandledAtMostOnce ==
    (cmd = "upgrade" /\ mode = ModeAuto) =>
        \A operator \in Operators :
            /\ confirms.role[operator] <= 1
            /\ awsCalls.ensureRole[operator] <= 1

\* C19 (as claimed): in manual mode the run prints the command block for the
\* missing roles at most once, and exactly once when it ends normally after
\* finding at least one missing role that is not in the cloud account.
C19_RoleCommandsPrintedOnce ==
    (cmd = "upgrade" /\ mode = ModeManual) =>
        /\ printed.roleCommands <= 1
        /\ (pc = "done" /\ exitCode # 1 /\ ~returnedErr /\ createdMissingRoles > 0) =>
               printed.roleCommands = 1

\* C14 (as claimed): after ParseUnknownFlags every undeclared long flag name
\* that appears in argv ("--name", "--name value" or "--name=value") is defined
\* in the flag set, wherever it appears, the last argument included; a name
\* that appears once has the value given, or true when it is given no value.
C14_UnknownFlagsAdded ==
    LET Given(i) == IF argv[i].kind = "eq" THEN argv[i].val
                    ELSE IF i < Len(argv) /\ argv[i + 1].kind = "val" THEN argv[i + 1].val
                    ELSE "true"
        Named(i) == argv[i].kind \in {"long", "eq"} /\ argv[i].name \in UndeclaredNames
    IN  (cmd = "parse" /\ lastCall = "ParseUnknownFlags") =>
            \A i \in 1..Len(argv) :
                Named(i) =>
                    /\ flags[argv[i].name].defined
                    /\ (\A j \in 1..Len(argv) : (Named(j) /\ argv[j].name = argv[i].name) => j = i)
                           => flags[argv[i].name].value = Given(i)

\* C15 (as claimed): after any sequence of ParseUnknownFlags and
\* ParseKnownFlags calls on argv, HasUnknownFlags() is true if and only if
\* argv has a flag that was not declared on the command.
C15_HasUnknownFlagsIffEncountered ==
    (cmd = "parse" /\ calls > 0) =>
        (hasUnknownFlags <=>
            \E i \in 1..Len(argv) :
                argv[i].kind \in {"long", "eq"} /\ argv[i].name \in UndeclaredNames)

\* C16 (as claimed): when argv contains "--help", ParseKnownFlags and
\* ParseUnknownFlags return pflag.ErrHelp, whatever else argv contains and
\* whatever failOnUnknown is.
C16_HelpAlwaysWins ==
    (cmd = "parse" /\ calls > 0
        /\ \E i \in 1..Len(argv) : argv[i].kind = "long" /\ argv[i].name = "help") =>
        err = ErrHelp

\* C17 (as claimed): ParseKnownFlags with failOnUnknown = true, called on the
\* declared flags: when argv has flags that are not declared it returns the
\* "Unknown flags passed" error, which names exactly these flags, once per
\* occurrence and in argv order, and it changes no flag; when argv has no such
\* flag it does not return that error.
C17_FailOnUnknownAtomic ==
    LET positions == [i \in 1..Len(argv) |-> i]
        Undeclared(i) == argv[i].kind \in {"long", "eq"} /\ argv[i].name \in UndeclaredNames
        undeclared == SelectSeq(positions, Undeclared)
        names == [k \in 1..Len(undeclared) |-> argv[undeclared[k]].name]
    IN  (cmd = "parse" /\ calls = 1 /\ lastCall = "ParseKnownFlags" /\ failOnUnknown) =>
            IF names # <<>>
            THEN err = ErrUnknownFlags /\ unknownFlags = names /\ flags = DeclaredFlags
            ELSE err # ErrUnknownFlags

\* C20 (as claimed): ParseKnownFlags with failOnUnknown = false, called on the
\* declared flags, hands to the flag parser exactly the declared flags of
\* argv, each followed by its own value when it takes one: an argument is kept
\* if and only if it is a declared flag or the value right after a declared
\* flag that takes a value; so no value that follows an undeclared flag is
\* kept.
C20_OnlyKnownFlagsMapped ==
    LET positions == [i \in 1..Len(argv) |-> i]
        DeclaredFlag(i) ==
            \/ argv[i].kind \in {"long", "eq"} /\ argv[i].name \in DeclaredNames
            \/ argv[i] = ShortHelp
        TakesValue(i) ==
            argv[i].kind = "long" /\ argv[i].name \in DeclaredNames
                /\ DeclaredFlags[argv[i].name].type # "bool"
        Kept(i) ==
            \/ DeclaredFlag(i)
            \/ argv[i].kind = "val" /\ i > 1 /\ TakesValue(i - 1)
    IN  (cmd = "parse" /\ calls = 1 /\ lastCall = "ParseKnownFlags" /\ ~failOnUnknown) =>
            validArgs = SelectSeq(positions, Kept)

\* C21: a step of the upgrade run never leaves a prompt or a call of
\* UpgradeOperatorRolePolicies, EnsureRole or AttachRolePolicy behind while no
\* operator role is missing for the target version and the operator policies
\* need no upgrade; in that case the step that has looked for the missing
\* roles ends the run, without os.Exit and without reporting an error; and
\* such calls are only there when a role was missing or a policy was stale.
C21_NothingToUpgradeNoEffect ==
    [][ LET missing == FindMissingOperatorRolesForUpgrade(cluster, credRequests,
                           TargetVersion(args.upgradeVersion, cluster.version))
        IN  cmd = "upgrade" =>
              /\ (pc = "findMissing" /\ missing = {} /\ ~isOperatorPolicyUpgradeNeeded) =>
                     (pc' = "done" /\ exitCode' = 0 - 1 /\ reported' = reported)
              /\ (missing = {} /\ ~isOperatorPolicyUpgradeNeeded') =>
                     (confirms' = NoConfirms /\ awsCalls' = NoAwsCalls)
              /\ awsCalls' # NoAwsCalls =>
                     (missingRolesInCS' # {} \/ isOperatorPolicyUpgradeNeeded') ]_vars

\* the run has returned nil for a cluster with operator roles of which none is
\* missing and whose policies are up to date: no prompt, no call
C21_Witness ==
    /\ cmd = "upgrade" /\ pc = "done" /\ exitCode = 0 - 1 /\ ~returnedErr
    /\ cluster.operatorRoles # {}
    /\ FindMissingOperatorRolesForUpgrade(cluster, credRequests,
           TargetVersion(args.upgradeVersion, cluster.version)) = {}
    /\ missingRolesInCS = {} /\ ~isOperatorPolicyUpgradeNeeded
    /\ confirms = NoConfirms /\ ~AnyAwsCall

\* C22 (as claimed): for a response with status 400 or greater, whatever its
\* body, the empty one included, SendContext returns a non-nil error; it
\* returns a nil error only for a status below 400 whose body is empty or was
\* read successfully.
C22_HttpFailureIsError ==
    (cmd \in {"LogsListRequest", "MachineTypeGetRequest"} /\ pc = "done"
        /\ ~response.transportErr) =>
        /\ response.status >= ErrorStatus => result.err # "nil"
        /\ result.err = "nil" =>
               (response.status < ErrorStatus /\ response.body \in {"empty", "json"})

====
